---- MODULE Spec2Model ----
(***************************************************************************)
(* Model of dfxexample.py: doExtraction streams the frames of a video into *)
(* a DFX collector, grabs a chunk whenever the collector reports           *)
(* CHUNKREADY or COMPLETED, grabs a last chunk when the video ends, and    *)
(* saves every chunk it got when an output folder was given.               *)
(*                                                                         *)
(* The collector (libdfx) and the video capture (cv2) are libraries the    *)
(* program calls.  The capture is modelled by what cv2.VideoCapture does;  *)
(* the collector is modelled from the engine contract of spec.md 4.3.      *)
(***************************************************************************)
EXTENDS Integers, Sequences, FiniteSets

\* ------------------------------------------------------------------ bounds
\* Longest video (in frames) and largest reported frame count.
MaxFrames == 11
\* Largest frame rate the capture reports.
MaxFPS == 2
\* Largest difference between the reported frame count and the frames decoded.
CountSlack == 1

\* ------------------------------------------------------- program constants
\* chunkDuration_s = 5
chunkDuration_s == 5
\* "Render every 10th frame": if frameNumber % 10 == 0
RenderEvery == 10

VARIABLES
    pc,            \* position in doExtraction
    output,        \* TRUE iff the output argument is not None
    video,         \* the capture: what cv2 knows about the file
    held,          \* the capture holds the video (opened, not released)
    pos,           \* CAP_PROP_POS_FRAMES: frames decoded so far
    collector,     \* the DFX collector
    numberChunks,  \* the local numberChunks
    frameNumber,   \* the local frameNumber
    annotation,    \* videofaces[str(frameNumber)] of the current frame
    result,        \* the local result (of extractChannels)
    chunkData,     \* the local chunkData: <<>> is None, <<p>> a chunk
    success,       \* the local success
    reported,      \* which of the two final messages was printed
    submitted,     \* frame numbers passed to extractChannels, in order
    saved,         \* payloads passed to savePayload, in order
    nRetrieve,     \* calls of getChunkData at line 183
    nFlush,        \* calls of getChunkData at line 149
    stamps,        \* timestamps passed to dfx.VideoFrame, in order
    hist,          \* what has happened in the run so far; pressed is the
                   \* frame during which 'q' was last pressed (0: it was not)
    phase,         \* "solo": one run; else whose turn it is of two runs
    input,         \* two runs: what the collaborators answered last
    other          \* two runs: the state of the run that is not in turn

vars == <<pc, output, video, held, pos, collector, numberChunks, frameNumber,
          annotation, result, chunkData, success, reported, submitted, saved,
          nRetrieve, nFlush, stamps, hist, phase, input, other>>

None == <<>>

\* ------------------------------------------------------------ the capture
\* CAP_PROP_FRAME_COUNT for a video that decodes n frames: the container's
\* figure, which may be off by a few frames, or 0 when it states none.
FrameCounts(n) ==
    {0} \cup {k \in 0..MaxFrames : k >= n - CountSlack /\ k <= n + CountSlack}

\* cv2.VideoCapture(videoPath): a file that cannot be opened reports 0 for
\* every property; an opened one reports its frame rate and frame count and
\* decodes length frames.
Videos ==
    {[opened |-> FALSE, fps |-> 0, frameCount |-> 0, length |-> 0]}
    \cup {v \in [opened : {TRUE}, fps : 0..MaxFPS, frameCount : 0..MaxFrames,
                 length : 0..MaxFrames] : v.frameCount \in FrameCounts(v.length)}

\* ---------------------------------------------------------- the collector
\* A chunk payload: the fields savePayload writes that the run decides.
ChunkPayload(c) ==
    [chunk_number  |-> c.nextChunk,
     number_chunks |-> c.numberChunks,
     start_frame   |-> c.winStart,
     end_frame     |-> c.winEnd]

\* factory.createCollector()
NewCollector(st) ==
    [state |-> st, targetFPS |-> 0, chunkDuration |-> 0, numberChunks |-> 0,
     winStart |-> 0, winEnd |-> 0, winCount |-> 0, winUsable |-> FALSE,
     closed |-> 0, nextChunk |-> 0, pending |-> None]

\* setTargetFPS, setChunkDurationSeconds, setNumberChunks, startCollection:
\* UNINITIALIZED -> COLLECTING on a consistent configuration, ERROR otherwise.
Configure(c, fps, dur, n) ==
    [c EXCEPT !.targetFPS = fps, !.chunkDuration = dur, !.numberChunks = n,
              !.state = IF c.state = "ERROR" \/ fps <= 0 \/ dur <= 0 \/ n < 1
                        THEN "ERROR" ELSE "COLLECTING"]

\* Frames that fill one chunk window.
FramesPerChunk(c) == c.chunkDuration * c.targetFPS

\* The window of c after frame k (usable iff its face was detected) joined it.
Joined(c, k, usable) ==
    [c EXCEPT !.winStart = IF c.winCount = 0 THEN k ELSE c.winStart,
              !.winEnd = k,
              !.winCount = c.winCount + 1,
              !.winUsable = c.winUsable \/ usable]

\* The window of c closed: its chunk (none when it holds no usable frame)
\* becomes the pending chunk and a new window starts.
Closed(c) ==
    [c EXCEPT !.pending = IF c.winUsable THEN <<ChunkPayload(c)>> ELSE None,
              !.nextChunk = IF c.winUsable THEN c.nextChunk + 1 ELSE c.nextChunk,
              !.closed = c.closed + 1,
              !.winStart = 0, !.winEnd = 0, !.winCount = 0,
              !.winUsable = FALSE]

\* collector.extractChannels(frame): the collector after the call.  ERROR and
\* COMPLETED are terminal; fault is an unrecoverable internal fault.
Extracted(c, k, usable, fault) ==
    IF c.state \in {"ERROR", "COMPLETED", "UNINITIALIZED"} THEN c
    ELSE IF fault THEN [c EXCEPT !.state = "ERROR"]
    ELSE LET j == Joined([c EXCEPT !.state = "COLLECTING"], k, usable)
         IN  IF j.winCount < FramesPerChunk(j) THEN j
             ELSE LET d == Closed(j)
                  IN  [d EXCEPT !.state = IF d.closed >= d.numberChunks
                                          THEN "COMPLETED" ELSE "CHUNKREADY"]

\* collector.getChunkData(): the chunk handed out.  The pending chunk if
\* there is one; else, while collecting, the frames of the open window.
ChunkOf(c) ==
    IF c.pending # None THEN c.pending
    ELSE IF c.state \in {"COLLECTING", "CHUNKREADY"} /\ c.winCount > 0
            /\ c.winUsable
         THEN <<ChunkPayload(c)>>
         ELSE None

\* collector.getChunkData(): the collector after the call.
Taken(c) ==
    IF c.pending # None THEN [c EXCEPT !.pending = None]
    ELSE IF c.state \in {"COLLECTING", "CHUNKREADY"} /\ c.winCount > 0
         THEN [c EXCEPT !.nextChunk = IF c.winUsable THEN c.nextChunk + 1
                                      ELSE c.nextChunk,
                        !.winStart = 0, !.winEnd = 0, !.winCount = 0,
                        !.winUsable = FALSE]
         ELSE c

\* ------------------------------------------------------------ doExtraction
\* numberChunks = math.ceil(videoDuration_s / chunkDuration_s), with
\* videoDuration_s = videoDuration_frames / targetFPS
\* The quotient rounded down plus one (int(x) + 1 in place of math.ceil).
FloorPlusOne(a, b) == a \div b + 1

CeilDiv(a, b) == (a + b - 1) \div b
\* The quotient rounded down (int() or // in place of math.ceil).
NumberChunksFloor(frames, fps) == frames \div (fps * chunkDuration_s)

NumberChunksOf(frames, fps) == CeilDiv(frames, fps * chunkDuration_s)

\* if output is not None: savePayload(chunkPayload, output)
Save(data) == IF data # None /\ output THEN saved \o data ELSE saved

\* doExtraction(videoPath, facePath, studyPath, output) is entered.
Start ==
    /\ pc = "start"
    /\ output \in BOOLEAN
    /\ video = [opened |-> FALSE, fps |-> 0, frameCount |-> 0, length |-> 0]
    /\ held = FALSE
    /\ pos = 0
    /\ collector = NewCollector("UNINITIALIZED")
    /\ numberChunks = 0
    /\ frameNumber = 0
    /\ annotation = "none"
    /\ result = "none"
    /\ chunkData = None
    /\ success = FALSE
    /\ reported = "none"
    /\ submitted = <<>>
    /\ saved = <<>>
    /\ nRetrieve = 0
    /\ nFlush = 0
    /\ stamps = <<>>
    /\ hist = [study |-> "none", created |-> "none", opens |-> 0,
               exit |-> "none", error |-> FALSE, completed |-> FALSE,
               missing |-> 0,
               decodeFailed |-> FALSE, released |-> 0,
               configured |-> 0, signals |-> 0, detected |-> FALSE,
               pressed |-> 0]

\* What the collaborators answer to one step: a flag (study loaded, image
\* decoded, collector fault), a word (collector state, face entry, key) or
\* the video that was opened.
NoVideo == [opened |-> FALSE, fps |-> 0, frameCount |-> 0, length |-> 0]
NoInput == [b |-> FALSE, s |-> "", v |-> NoVideo]

Init ==
    /\ Start
    /\ phase = "solo"
    /\ input = NoInput
    /\ other = None

\* One run: the second run's variables stay as they are.
Solo == phase = "solo" /\ UNCHANGED <<phase, input, other>>

\* if not factory.initializeStudyFromFile(studyPath): ... sys.exit(1)
InitializeStudy(ok) ==
    /\ pc = "start"
    /\ pc' = IF ok THEN "create" ELSE "exited"
    /\ hist' = [hist EXCEPT !.study = IF ok THEN "ok" ELSE "failed"]
    /\ UNCHANGED <<output, video, held, pos, collector, numberChunks,
                   frameNumber, annotation, result, chunkData, success,
                   reported, submitted, saved, nRetrieve, nFlush, stamps>>

\* The check of the new collector's state left out.
CollectorFailureIgnored(st) == FALSE

\* if collector.getCollectorState() == dfx.CollectorState.ERROR
CollectorFailed(st) == st = "ERROR"

\* collector = factory.createCollector(); ... sys.exit(1)
CreateCollector(st) ==
    /\ pc = "create"
    /\ collector' = NewCollector(st)
    /\ pc' = IF CollectorFailed(st) THEN "exited" ELSE "load"
    /\ hist' = [hist EXCEPT !.created = st]
    /\ UNCHANGED <<output, video, held, pos, numberChunks, frameNumber,
                   annotation, result, chunkData, success, reported,
                   submitted, saved, nRetrieve, nFlush, stamps>>

\* Lines 88-139: load the face data, open the video, configure the collector
\* from the capture's frame rate and frame count, start the collection.  A
\* frame rate of 0 raises ZeroDivisionError at line 112.
LoadVideo(v) ==
    /\ pc = "load"
    /\ video' = v
    /\ held' = v.opened
    /\ hist' = [hist EXCEPT !.opens = hist.opens + 1,
                            !.configured = IF v.fps = 0 THEN hist.configured
                                           ELSE hist.configured + 1]
    /\ IF v.fps = 0
       THEN /\ pc' = "crashed"
            /\ UNCHANGED <<collector, numberChunks>>
       ELSE /\ numberChunks' = NumberChunksOf(v.frameCount, v.fps)
            /\ collector' = Configure(collector, v.fps, chunkDuration_s,
                                      NumberChunksOf(v.frameCount, v.fps))
            /\ pc' = "read"
    /\ UNCHANGED <<output, pos, frameNumber, annotation, result, chunkData,
                   success, reported, submitted, saved, nRetrieve, nFlush, stamps>>

\* The end of the video not noticed: only a failed decode gives None.
ImageIsNoneOnFailure(decodes) == ~decodes

\* ret, image = videocap.read(): image is None at the end of the video and
\* when the next frame cannot be decoded.
ImageIsNone(decodes) == pos >= video.length \/ ~decodes

\* The frame numbered by the position before it was decoded.
FrameNumberBeforeRead(p) == p - 1

\* frameNumber = int(videocap.get(cv2.CAP_PROP_POS_FRAMES)), read after the
\* frame was decoded: p is the position the capture then reports.
FrameNumberAt(p) == p

\* Times are kept exact: [e9 |-> n, per |-> d] is n * 10^9 / d nanoseconds.
\* durationOneFrame_ns = 1000000000.0 / targetFPS
DurationOneFrame(fps) == [e9 |-> 1, per |-> fps]

\* The timestamp taken from the position before the frame was decoded.
TimestampBeforeRead(k, d) == [e9 |-> (k - 1) * d.e9, per |-> d.per]

\* frameNumber * durationOneFrame_ns, the timestamp of dfx.VideoFrame
TimestampOf(k, d) == [e9 |-> k * d.e9, per |-> d.per]

\* An empty last chunk taken for a failure (success only with a chunk).
VideoEndedEmptyFails(decodes) ==
    /\ pc = "read"
    /\ ImageIsNone(decodes)
    /\ chunkData' = ChunkOf(collector)
    /\ collector' = Taken(collector)
    /\ nFlush' = nFlush + 1
    /\ saved' = Save(ChunkOf(collector))
    /\ success' = (ChunkOf(collector) # None)
    /\ pc' = "finish"
    /\ hist' = [hist EXCEPT !.exit = "ended",
                            !.decodeFailed = pos < video.length]
    /\ UNCHANGED <<output, video, held, pos, numberChunks, frameNumber,
                   annotation, result, reported, submitted, nRetrieve,
                   stamps>>

\* Lines 145-158: the video ended, grab what should be the last chunk.
VideoEnded(decodes) ==
    /\ pc = "read"
    /\ ImageIsNone(decodes)
    /\ chunkData' = ChunkOf(collector)
    /\ collector' = Taken(collector)
    /\ nFlush' = nFlush + 1
    /\ saved' = Save(ChunkOf(collector))
    /\ success' = TRUE
    /\ pc' = "finish"
    /\ hist' = [hist EXCEPT !.exit = "ended",
                            !.decodeFailed = pos < video.length]
    /\ UNCHANGED <<output, video, held, pos, numberChunks, frameNumber,
                   annotation, result, reported, submitted, nRetrieve,
                   stamps>>

\* Lines 145-167: a frame was read; create the dfx frame with its number.
ReadFrame(decodes) ==
    /\ pc = "read"
    /\ ~ImageIsNone(decodes)
    /\ pos' = pos + 1
    /\ frameNumber' = FrameNumberAt(pos + 1)
    /\ stamps' = Append(stamps, TimestampOf(FrameNumberAt(pos + 1),
                                            DurationOneFrame(video.fps)))
    /\ pc' = "face"
    /\ UNCHANGED <<output, video, held, collector, numberChunks, annotation,
                   result, chunkData, success, reported, submitted, saved,
                   nRetrieve, nFlush, hist>>

\* A lookup that yields no face instead of raising (videofaces.get).
LookupNeverFails(ann) == FALSE

\* videofaces[str(frameNumber)] raises KeyError when the frame has no entry.
LookupFails(ann) == ann = "missing"

\* Lines 170-175: add the face of the frame; a KeyError ends doExtraction.
AddFace(ann) ==
    /\ pc = "face"
    /\ annotation' = ann
    /\ pc' = IF LookupFails(ann) THEN "crashed" ELSE "extract"
    /\ hist' = [hist EXCEPT !.missing = IF ann = "missing" THEN frameNumber
                                        ELSE hist.missing,
                            !.detected = hist.detected \/ ann = "detected"]
    /\ UNCHANGED <<output, video, held, pos, collector, numberChunks,
                   frameNumber, result, chunkData, success, reported,
                   submitted, saved, nRetrieve, nFlush, stamps>>

\* Lines 178-179: result = collector.extractChannels(frame)
ExtractChannels(fault) ==
    /\ pc = "extract"
    /\ LET c == Extracted(collector, frameNumber,
                          annotation = "detected", fault)
       IN  /\ collector' = c
           /\ result' = c.state
           /\ hist' = [hist EXCEPT
                          !.error = hist.error \/ c.state = "ERROR",
                          !.completed = hist.completed \/ c.state = "COMPLETED",
                          !.signals = IF c.state \in {"CHUNKREADY", "COMPLETED"}
                                      THEN hist.signals + 1 ELSE hist.signals]
    /\ submitted' = Append(submitted, frameNumber)
    /\ pc' = "grab"
    /\ UNCHANGED <<output, video, held, pos, numberChunks, frameNumber,
                   annotation, chunkData, success, reported, saved,
                   nRetrieve, nFlush, stamps>>

\* The chunk grabbed only when the collection completed.
ShouldGrabCompletedOnly(r) == r = "COMPLETED"

\* A chunk grabbed after every frame.
ShouldGrabAlways(r) == TRUE

\* The whole grab put under "if output is not None".
ShouldGrabWithOutput(r) == output /\ r \in {"CHUNKREADY", "COMPLETED"}

\* if result == CHUNKREADY or result == COMPLETED
ShouldGrab(r) == r \in {"CHUNKREADY", "COMPLETED"}

\* The loop not left when the collection completed.
IsCompletedIgnored(r) == FALSE

\* if result == dfx.CollectorState.COMPLETED: success = True; break
IsCompleted(r) == r = "COMPLETED"

\* Lines 182-195: grab a chunk and check if we are finished.
GrabChunk ==
    /\ pc = "grab"
    /\ IF ShouldGrab(result)
       THEN /\ chunkData' = ChunkOf(collector)
            /\ collector' = Taken(collector)
            /\ nRetrieve' = nRetrieve + 1
            /\ saved' = Save(ChunkOf(collector))
            /\ IF IsCompleted(result)
               THEN /\ success' = TRUE
                    /\ pc' = "finish"
                    /\ hist' = [hist EXCEPT !.exit = "completed"]
               ELSE /\ pc' = "render"
                    /\ UNCHANGED <<success, hist>>
       ELSE /\ pc' = "render"
            /\ UNCHANGED <<chunkData, collector, nRetrieve, saved, success,
                           hist>>
    /\ UNCHANGED <<output, video, held, pos, numberChunks, frameNumber,
                   annotation, result, reported, submitted, nFlush, stamps>>

\* Every frame rendered, the key polled after every frame.
RenderDueAlways(k) == TRUE

\* if frameNumber % 10 == 0
RenderDue(k) == k % RenderEvery = 0

\* if cv2.waitKey(1) & 0xFF == ord('q')
QuitPressed(key) == key = "q"

\* 'q' noticed but the loop not left (the break missing).
RenderKeepsGoing(key) ==
    /\ pc = "render"
    /\ pc' = "read"
    /\ IF RenderDue(frameNumber) /\ QuitPressed(key)
       THEN /\ success' = FALSE
            /\ hist' = [hist EXCEPT !.exit = "quit", !.pressed = frameNumber]
       ELSE /\ hist' = [hist EXCEPT !.pressed = IF key = "q" THEN frameNumber
                                                ELSE 0]
            /\ UNCHANGED success
    /\ UNCHANGED <<output, video, held, pos, collector, numberChunks,
                   frameNumber, annotation, result, chunkData, reported,
                   submitted, saved, nRetrieve, nFlush, stamps>>

\* Lines 197-223: render every 10th frame; 'q' interrupts the loop.
Render(key) ==
    /\ pc = "render"
    /\ IF RenderDue(frameNumber) /\ QuitPressed(key)
       THEN /\ success' = FALSE
            /\ pc' = "finish"
            /\ hist' = [hist EXCEPT !.exit = "quit", !.pressed = frameNumber]
       ELSE /\ pc' = "read"
            /\ hist' = [hist EXCEPT !.pressed = IF key = "q" THEN frameNumber
                                                ELSE 0]
            /\ UNCHANGED success
    /\ UNCHANGED <<output, video, held, pos, collector, numberChunks,
                   frameNumber, annotation, result, chunkData, reported,
                   submitted, saved, nRetrieve, nFlush, stamps>>

\* Lines 225-232: print the outcome, release the capture.
Finish ==
    /\ pc = "finish"
    /\ reported' = IF success THEN "finished completely"
                   ELSE "interrupted or failed"
    /\ held' = FALSE
    /\ hist' = [hist EXCEPT !.released = hist.released + 1]
    /\ pc' = "done"
    /\ UNCHANGED <<output, video, pos, collector, numberChunks, frameNumber,
                   annotation, result, chunkData, success, submitted, saved,
                   nRetrieve, nFlush, stamps>>

Next ==
    \/ \E ok \in BOOLEAN : InitializeStudy(ok) /\ Solo
    \/ \E st \in {"UNINITIALIZED", "ERROR"} : CreateCollector(st) /\ Solo
    \/ \E v \in Videos : LoadVideo(v) /\ Solo
    \/ \E decodes \in BOOLEAN : VideoEnded(decodes) /\ Solo
    \/ \E decodes \in BOOLEAN : ReadFrame(decodes) /\ Solo
    \/ \E ann \in {"detected", "undetected", "missing"} : AddFace(ann) /\ Solo
    \/ \E fault \in BOOLEAN : ExtractChannels(fault) /\ Solo
    \/ GrabChunk /\ Solo
    \/ \E key \in {"q", "other"} : Render(key) /\ Solo
    \/ Finish /\ Solo

Spec == Init /\ [][Next]_vars

\* --------------------------------------------------------------- scenario A
\* spec.md 8, scenario A: a video of 150 frames at 30 fps and a collector
\* that meets no internal fault.
VideoA == [opened |-> TRUE, fps |-> 30, frameCount |-> 150, length |-> 150]

NextA ==
    \/ \E ok \in BOOLEAN : InitializeStudy(ok) /\ Solo
    \/ \E st \in {"UNINITIALIZED", "ERROR"} : CreateCollector(st) /\ Solo
    \/ LoadVideo(VideoA) /\ Solo
    \/ \E decodes \in BOOLEAN : VideoEnded(decodes) /\ Solo
    \/ \E decodes \in BOOLEAN : ReadFrame(decodes) /\ Solo
    \/ \E ann \in {"detected", "undetected", "missing"} : AddFace(ann) /\ Solo
    \/ ExtractChannels(FALSE) /\ Solo
    \/ GrabChunk /\ Solo
    \/ \E key \in {"q", "other"} : Render(key) /\ Solo
    \/ Finish /\ Solo

SpecA == Init /\ [][NextA]_vars

\* ----------------------------------------------------------------- two runs
\* doExtraction run twice on the same video, face data, collector behaviour
\* and keys: with an output folder (left) and with output None (right).  The
\* runs take turns, one step each; the right run gets the answers the left
\* run got.
Snapshot ==
    [pc |-> pc, output |-> output, video |-> video, held |-> held,
     pos |-> pos, collector |-> collector, numberChunks |-> numberChunks,
     frameNumber |-> frameNumber, annotation |-> annotation,
     result |-> result, chunkData |-> chunkData, success |-> success,
     reported |-> reported, submitted |-> submitted, saved |-> saved,
     nRetrieve |-> nRetrieve, nFlush |-> nFlush, stamps |-> stamps,
     hist |-> hist]

\* The answers the collaborators can give at position p.
InputsAt(p) ==
    CASE p \in {"start", "read", "extract"} ->
             {[NoInput EXCEPT !.b = x] : x \in BOOLEAN}
      [] p = "create" ->
             {[NoInput EXCEPT !.s = x] : x \in {"UNINITIALIZED", "ERROR"}}
      [] p = "load" -> {[NoInput EXCEPT !.v = x] : x \in Videos}
      [] p = "face" ->
             {[NoInput EXCEPT !.s = x] :
                  x \in {"detected", "undetected", "missing"}}
      [] p = "render" -> {[NoInput EXCEPT !.s = x] : x \in {"q", "other"}}
      [] p \in {"grab", "finish"} -> {NoInput}
      [] OTHER -> {}

\* The step of doExtraction that is due, given the answer in.
RunWith(in) ==
    \/ InitializeStudy(in.b)
    \/ CreateCollector(in.s)
    \/ LoadVideo(in.v)
    \/ VideoEnded(in.b)
    \/ ReadFrame(in.b)
    \/ AddFace(in.s)
    \/ ExtractChannels(in.b)
    \/ GrabChunk
    \/ Render(in.s)
    \/ Finish

TwinInit ==
    /\ Start
    /\ output = TRUE
    /\ phase = "left"
    /\ input = NoInput
    /\ other = [Snapshot EXCEPT !.output = FALSE]

\* The run with an output folder takes a step.
TwinLeft ==
    /\ phase = "left"
    /\ \E in \in InputsAt(pc) : RunWith(in) /\ input' = in
    /\ phase' = "toRight"
    /\ UNCHANGED other

\* The run with output None takes the same step.
TwinRight ==
    /\ phase = "right"
    /\ RunWith(input)
    /\ phase' = "toLeft"
    /\ UNCHANGED <<input, other>>

\* The turn passes to the other run.
TwinSwap ==
    /\ phase \in {"toRight", "toLeft"}
    /\ phase' = IF phase = "toRight" THEN "right" ELSE "left"
    /\ other' = Snapshot
    /\ pc' = other.pc
    /\ output' = other.output
    /\ video' = other.video
    /\ held' = other.held
    /\ pos' = other.pos
    /\ collector' = other.collector
    /\ numberChunks' = other.numberChunks
    /\ frameNumber' = other.frameNumber
    /\ annotation' = other.annotation
    /\ result' = other.result
    /\ chunkData' = other.chunkData
    /\ success' = other.success
    /\ reported' = other.reported
    /\ submitted' = other.submitted
    /\ saved' = other.saved
    /\ nRetrieve' = other.nRetrieve
    /\ nFlush' = other.nFlush
    /\ stamps' = other.stamps
    /\ hist' = other.hist
    /\ UNCHANGED input

TwinNext == TwinLeft \/ TwinRight \/ TwinSwap

TwinSpec == TwinInit /\ [][TwinNext]_vars

\* ------------------------------------------------------------------ claims
Ended == pc \in {"done", "crashed", "exited"}

\* C1: the chunk_number values of the payloads passed to savePayload are, in
\* order, 0, 1, 2, ... without gap or repeat, and each is below numberChunks.
C1_ChunkNumbersContiguous ==
    \A i \in 1..Len(saved) :
        /\ saved[i].chunk_number = i - 1
        /\ saved[i].chunk_number < numberChunks

\* Three chunks saved, the last one grabbed when the video ended.
C1_Witness ==
    /\ pc = "done"
    /\ hist.exit = "ended"
    /\ Len(saved) = 3

\* C2: once extractChannels returned ERROR no further frame is read, no
\* further frame is submitted and getChunkData is never called.
C2_StopsOnError ==
    [][hist.error => /\ pos' = pos
                     /\ submitted' = submitted
                     /\ nRetrieve' = nRetrieve
                     /\ nFlush' = nFlush]_vars

\* C3: a run in which extractChannels returned ERROR leaves the loop with
\* success false and is not reported as finished completely.
C3_ErrorRunFails ==
    hist.error /\ pc \in {"finish", "done"} =>
        /\ ~success
        /\ reported # "finished completely"

\* C4: the getChunkData of the video-ended branch is called at most once,
\* only when the video ended in a run where no submit returned COMPLETED;
\* exactly once in every run that ended that way, and never in a run that
\* stopped on COMPLETED or on 'q'.
C4_FinalFlushOnce ==
    /\ nFlush <= 1
    /\ nFlush = 1 => hist.exit = "ended" /\ ~hist.completed
    /\ hist.exit = "ended" => nFlush = 1
    /\ hist.exit \in {"completed", "quit"} => nFlush = 0

\* The video ended after frames were submitted and the last chunk was asked for.
C4_Witness ==
    /\ pc = "done"
    /\ hist.exit = "ended"
    /\ nFlush = 1
    /\ nRetrieve = 1
    /\ Len(submitted) > chunkDuration_s

\* C5: when the video ended before COMPLETED and the last getChunkData gave
\* a chunk, its end_frame is the index of the last frame read, that frame
\* was submitted, and start_frame <= end_frame.
C5_FlushEndFrame ==
    hist.exit = "ended" /\ chunkData # None =>
        /\ chunkData[1].end_frame = pos
        /\ Len(submitted) = pos
        /\ chunkData[1].start_frame <= chunkData[1].end_frame

\* A truncated second chunk of more than one frame came out of the last grab.
C5_Witness ==
    /\ hist.exit = "ended"
    /\ chunkData # None
    /\ chunkData[1].chunk_number = 1
    /\ chunkData[1].start_frame < chunkData[1].end_frame

\* C6: when the face data has no entry for frame k the run fails at frame k:
\* k is never submitted, nothing is grabbed or saved afterwards, and the run
\* is not reported as finished.
C6_MissingAnnotationFails ==
    /\ [](hist.missing # 0 =>
            /\ pc = "crashed"
            /\ \A i \in 1..Len(submitted) : submitted[i] # hist.missing
            /\ ~success
            /\ reported = "none")
    /\ [][hist.missing # 0 => /\ submitted' = submitted
                              /\ nRetrieve' = nRetrieve
                              /\ nFlush' = nFlush
                              /\ saved' = saved]_vars

\* The entry of a frame after the first chunk is missing.
C6_Witness ==
    /\ hist.missing > chunkDuration_s
    /\ saved # <<>>

\* C7: when the study initialization fails or the new collector is in state
\* ERROR the run ends before the video is opened: no frame is read, nothing
\* is submitted, grabbed or saved.
C7_AbortsBeforeOpen ==
    hist.study = "failed" \/ hist.created = "ERROR" =>
        /\ pc = "exited"
        /\ hist.opens = 0
        /\ ~held
        /\ pos = 0
        /\ submitted = <<>>
        /\ nRetrieve = 0
        /\ nFlush = 0
        /\ saved = <<>>

\* The collector was created in state ERROR.
C7_Witness ==
    /\ hist.created = "ERROR"
    /\ pc = "exited"

\* C8: however doExtraction ends after the video was opened, the capture has
\* been released.
C8_ReleasedOnEveryExit ==
    Ended /\ hist.opens > 0 => ~held

\* C9: when the video cannot be opened, or a frame cannot be decoded before
\* the end of the video, the run is marked failed and the capture released.
C9_SourceFailureFailsRun ==
    Ended /\ hist.opens > 0 /\ (~video.opened \/ hist.decodeFailed) =>
        /\ ~success
        /\ reported # "finished completely"
        /\ ~held

\* C10: when 'q' interrupts the loop, success is false, getChunkData is not
\* called and nothing is saved afterwards, and the capture is released.
C10_QuitInterrupts ==
    /\ [](hist.exit = "quit" =>
            /\ ~success
            /\ nFlush = 0
            /\ pc \in {"finish", "done"}
            /\ pc = "done" => ~held /\ reported = "interrupted or failed")
    /\ [][hist.exit = "quit" => /\ pos' = pos
                                /\ nRetrieve' = nRetrieve
                                /\ nFlush' = nFlush
                                /\ saved' = saved]_vars

\* 'q' was pressed at frame 10, after two chunks were saved.
C10_Witness ==
    /\ hist.exit = "quit"
    /\ pc = "done"
    /\ Len(saved) = 2

\* C11: the numberChunks set on the collector is the ceiling of
\* (frame count / targetFPS) / 5, that is the least n with
\* n * 5 * targetFPS >= frame count; it is set once, before any frame is
\* read, and does not change afterwards.
C11_NumberChunksIsCeil ==
    /\ [](hist.configured = 0 => pos = 0 /\ submitted = <<>>)
    /\ [](hist.configured > 0 =>
            /\ hist.configured = 1
            /\ collector.numberChunks = numberChunks
            /\ numberChunks * chunkDuration_s * video.fps >= video.frameCount
            /\ (numberChunks - 1) * chunkDuration_s * video.fps
                   < video.frameCount)
    /\ [][hist.configured > 0 =>
            /\ collector'.numberChunks = collector.numberChunks
            /\ numberChunks' = numberChunks]_vars

\* A run to the end with 11 frames reported at 1 fps: three chunks asked for.
C11_Witness ==
    /\ pc = "done"
    /\ hist.configured = 1
    /\ video.frameCount = 11
    /\ video.fps = 1
    /\ collector.numberChunks = 3

\* C12: the configuration handed to the collector for any video that opens
\* has targetFPS > 0, chunk duration > 0 and numberChunks >= 1.
C12_ConfigurationValid ==
    hist.configured > 0 =>
        /\ collector.targetFPS > 0
        /\ collector.chunkDuration > 0
        /\ collector.numberChunks >= 1

\* C13: the frames submitted in one run have contiguous indices, starting at
\* the index of the first frame (1, the position after the first read); the
\* timestamp of each is index * (10^9 / targetFPS), so consecutive timestamps
\* differ by 10^9 / targetFPS and increase strictly.
C13_FramesContiguous ==
    /\ Len(submitted) <= Len(stamps)
    /\ \A i \in 1..Len(submitted) :
        /\ submitted[i] = i
        /\ stamps[i].per = video.fps
        /\ stamps[i].e9 = submitted[i]
    /\ \A i \in 1..(Len(submitted) - 1) :
        /\ submitted[i + 1] = submitted[i] + 1
        /\ stamps[i + 1].e9 - stamps[i].e9 = DurationOneFrame(video.fps).e9
        /\ stamps[i + 1].e9 > stamps[i].e9

\* Eleven frames were submitted at 2 fps.
C13_Witness ==
    /\ Len(submitted) = 11
    /\ video.fps = 2

\* What a run does apart from saving: its position, the frames it read and
\* submitted, its getChunkData calls, the chunks it got and its outcome.
Doing(s) ==
    [pc |-> s.pc, pos |-> s.pos, submitted |-> s.submitted,
     stamps |-> s.stamps, nRetrieve |-> s.nRetrieve, nFlush |-> s.nFlush,
     result |-> s.result, chunkData |-> s.chunkData,
     success |-> s.success, reported |-> s.reported, held |-> s.held,
     hist |-> s.hist]

\* C14: the run with output None takes every step the run with an output
\* folder takes (same reads, submits, getChunkData calls, same outcome) and
\* never calls savePayload.
C14_OutputOnlyPersists ==
    /\ phase \in {"left", "toLeft"} =>
        /\ Doing(Snapshot) = Doing(other)
        /\ (IF output THEN other.saved ELSE saved) = <<>>
    /\ phase = "right" => ENABLED TwinRight

\* Both runs are done; the one with an output folder saved two chunks.
C14_Witness ==
    /\ phase = "left"
    /\ pc = "done"
    /\ output
    /\ Len(saved) = 2
    /\ other.pc = "done"
    /\ other.nRetrieve = 2

\* A run that was given an output folder, found every face entry and a face
\* in at least one, decoded every frame and was not interrupted.
Undisturbed ==
    /\ output
    /\ hist.missing = 0
    /\ hist.detected
    /\ ~hist.decodeFailed
    /\ ~hist.error
    /\ hist.exit # "quit"

\* C15: for 150 frames at 30 fps and 5 s chunks numberChunks is 1, the
\* collector has reported COMPLETED once frame 150 is submitted, and an
\* undisturbed run saves exactly one payload, with chunk_number 0.
C15_ScenarioA ==
    /\ hist.configured > 0 => numberChunks = 1 /\ collector.numberChunks = 1
    /\ Len(submitted) <= VideoA.length
    /\ Len(submitted) = VideoA.length => hist.completed
    /\ Len(saved) <= 1
    /\ pc = "done" /\ Undisturbed =>
        /\ hist.exit = "completed"
        /\ Len(saved) = 1
        /\ saved[1].chunk_number = 0

\* The undisturbed run ended on COMPLETED at frame 150 with one chunk saved.
C15_Witness ==
    /\ pc = "done"
    /\ Undisturbed
    /\ frameNumber = VideoA.length
    /\ result = "COMPLETED"
    /\ Len(saved) = 1

\* C16: when a submit returned COMPLETED the loop grabs the chunk once, saves
\* it if there is one, sets success and stops: no further frame is read or
\* submitted and the video-ended grab is not made.
C16_StopsOnCompleted ==
    /\ [](hist.completed /\ pc \in {"finish", "done"} =>
            /\ success
            /\ hist.exit = "completed"
            /\ nFlush = 0)
    /\ [][hist.completed =>
            /\ pos' = pos
            /\ submitted' = submitted
            /\ nFlush' = nFlush
            /\ IF pc = "grab"
               THEN /\ nRetrieve' = nRetrieve + 1
                    /\ saved' = (IF output THEN saved \o chunkData' ELSE saved)
                    /\ success'
                    /\ pc' = "finish"
               ELSE /\ nRetrieve' = nRetrieve
                    /\ saved' = saved
                    /\ success' = success]_vars

\* The run ended on COMPLETED after a second chunk was grabbed and saved.
C16_Witness ==
    /\ pc = "done"
    /\ hist.exit = "completed"
    /\ nRetrieve = 2
    /\ Len(saved) = 2

\* The collector signalled a chunk.
Signalled(r) == r \in {"CHUNKREADY", "COMPLETED"}

\* C17: in the loop getChunkData is called once after each submit that
\* returned CHUNKREADY or COMPLETED and not after any other; after
\* CHUNKREADY the loop goes on, and after COLLECTING nothing is grabbed or
\* saved in that iteration.
C17_RetrieveOncePerSignal ==
    /\ [](nRetrieve = hist.signals
                      - (IF pc = "grab" /\ Signalled(result) THEN 1 ELSE 0))
    /\ [][pc = "grab" =>
            /\ Signalled(result) => nRetrieve' = nRetrieve + 1
            /\ result = "COLLECTING" =>
                   /\ nRetrieve' = nRetrieve
                   /\ saved' = saved
                   /\ chunkData' = chunkData
                   /\ pc' = "render"
            /\ result = "CHUNKREADY" =>
                   /\ pc' = "render"
                   /\ success' = success
                   /\ hist'.exit = "none"]_vars
    /\ [][pc # "grab" => nRetrieve' = nRetrieve]_vars

\* Two chunks were signalled and grabbed, and the loop is reading on.
C17_Witness ==
    /\ pc = "read"
    /\ result = "CHUNKREADY"
    /\ hist.signals = 2
    /\ nRetrieve = 2

\* C18: a getChunkData that gives None is no error: after CHUNKREADY the
\* loop goes on, after COMPLETED and at the end of the video the run is
\* still marked successful, and nothing is saved for that call.
C18_EmptyChunkIsNoError ==
    /\ [][nRetrieve' # nRetrieve /\ chunkData' = None =>
            /\ saved' = saved
            /\ result = "CHUNKREADY" => pc' = "render" /\ success' = success
            /\ result = "COMPLETED" => pc' = "finish" /\ success']_vars
    /\ [][nFlush' # nFlush /\ chunkData' = None =>
            /\ saved' = saved
            /\ success'
            /\ pc' = "finish"]_vars
    /\ [](pc = "done" /\ hist.exit \in {"ended", "completed"}
              /\ chunkData = None
            => reported = "finished completely")

\* Two windows without a face: None after CHUNKREADY and after COMPLETED,
\* and the run with an output folder finished completely with nothing saved.
C18_Witness ==
    /\ pc = "done"
    /\ output
    /\ hist.exit = "completed"
    /\ nRetrieve = 2
    /\ chunkData = None
    /\ saved = <<>>
    /\ reported = "finished completely"

\* C19: 'q' is looked for once in every iteration, so a 'q' pressed while
\* frame k is processed stops the run before frame k+1 is read.
C19_QuitCheckedEveryFrame ==
    [][hist.pressed # 0 => pos' = pos]_vars

\* C19 as amended: 'q' is looked for only in iterations whose frame number is
\* a multiple of 10, after that frame's submit returned; pressed during such
\* a frame it stops the run before the next frame is read, pressed during
\* any other frame it does not stop the loop there.
C19_QuitCheckedEveryTenth ==
    /\ [][pc = "render" =>
            (pc' = "finish" <=> /\ hist'.pressed # 0
                                /\ hist'.pressed % RenderEvery = 0)]_vars
    /\ [][hist.pressed # 0 /\ hist.pressed % RenderEvery = 0 =>
            /\ pos' = pos
            /\ submitted' = submitted]_vars
    /\ [](hist.exit = "quit" =>
            /\ hist.pressed = frameNumber
            /\ submitted # <<>>
            /\ submitted[Len(submitted)] = frameNumber)

\* 'q' at frame 10 ended the run with a frame of the video left unread.
C19_Witness ==
    /\ pc = "done"
    /\ hist.exit = "quit"
    /\ hist.pressed = RenderEvery
    /\ pos = RenderEvery
    /\ video.length > pos

\* The run is inside the loop of lines 144-223.
InLoop == pc \in {"read", "face", "extract", "grab", "render"}

\* Some step of the loop body, whatever the collaborators answer.
LoopStep ==
    \/ \E decodes \in BOOLEAN : VideoEnded(decodes) \/ ReadFrame(decodes)
    \/ \E ann \in {"detected", "undetected", "missing"} : AddFace(ann)
    \/ \E fault \in BOOLEAN : ExtractChannels(fault)
    \/ GrabChunk
    \/ \E key \in {"q", "other"} : Render(key)

\* An upper bound of the steps the loop can still take: five for every frame
\* the video has left, and those left of the iteration under way.
StepsLeft ==
    (video.length - pos) * 6
    + (CASE pc = "face" -> 4 [] pc = "extract" -> 3 [] pc = "grab" -> 2
         [] pc = "render" -> 1 [] OTHER -> 0)

\* C20: whatever the collector answers, the loop is left in the end (while
\* in the loop a step is always due, and every step in the loop lowers a
\* bound that cannot go below 0), at the latest in the iteration in which
\* the capture gives no image; no more frames are submitted than the
\* capture delivered.
C20_LoopExits ==
    /\ [](InLoop => ENABLED LoopStep)
    /\ [][InLoop /\ InLoop' => StepsLeft' < StepsLeft]_vars
    /\ [](InLoop => StepsLeft >= 0)
    /\ [](Len(submitted) <= pos /\ pos <= video.length)
    /\ [][nFlush' # nFlush => pc' = "finish"]_vars

\* The collector answered ERROR, never COMPLETED, and the run went on to the
\* end of a video of more than ten frames.
C20_Witness ==
    /\ pc = "done"
    /\ hist.error
    /\ ~hist.completed
    /\ hist.exit = "ended"
    /\ pos = video.length
    /\ Len(submitted) > RenderEvery
====
